---- MODULE Spec2Model ----
(***************************************************************************)
(* The eleven benchmark scripts of src/performance as one state machine.   *)
(* One script runs per behaviour (chosen in Init).  Each script is a       *)
(* sequential program: start (seeding, initial locals), one action per     *)
(* loop iteration, and the final prints.  The helper functions with loops  *)
(* or recursion (is_prime, gcd, fibonacci) run step by step.               *)
(*                                                                         *)
(* random.randint(lo, hi) is a nondeterministic choice in lo..hi.  The     *)
(* generator's state is abstracted to `seed`: <<>> while the script has    *)
(* not seeded it (the interpreter then seeds it from OS entropy, so the    *)
(* sequence differs from run to run), <<42>> after random.seed(42).        *)
(*                                                                         *)
(* `locals` holds main's accumulators and loop counter (and the locals a   *)
(* claim is about); temporaries that every iteration assigns before it     *)
(* reads them are LET-bound inside the iteration's action.                 *)
(***************************************************************************)
EXTENDS Integers, Sequences, FiniteSets, TLC

VARIABLES
    script,         \* the script being run
    pc,             \* control position
    locals,         \* main's local variables
    stack,          \* frames of the active helper calls, innermost last
    ret,            \* the value the last helper call returned
    heap,           \* Counter objects: address -> [value]
    seed,           \* <<>>: not seeded by the script; <<42>>: random.seed(42)
    unseeded_draw,  \* a randint was drawn while seed = <<>>
    out             \* the values printed so far

vars == <<script, pc, locals, stack, ret, heap, seed, unseeded_draw, out>>

----------------------------------------------------------------------------
(* Bounds of the model *)

\* loop iterations modelled for the loops whose body draws random numbers
MaxIter == 2
\* randint(lo, hi) is sampled as its RandSpan lowest and RandSpan highest values
RandSpan == 3

Min(x, y) == IF x < y THEN x ELSE y
Max(x, y) == IF x < y THEN y ELSE x

\* range(n), cut at the model's iteration bound
Cap(n) == Min(n, MaxIter)

SeedValue == 42

\* random.randint(lo, hi): any integer of lo..hi (sampled)
randint(lo, hi) == {x \in lo..hi : x < lo + RandSpan \/ x > hi - RandSpan}

\* the effect of one or more randint calls on the generator's bookkeeping
Drew == unseeded_draw' = (unseeded_draw \/ seed # <<SeedValue>>)

\* Python raises ZeroDivisionError: the script stops with a traceback
Raise ==
    /\ pc' = "ZeroDivisionError"
    /\ UNCHANGED <<script, locals, stack, ret, heap, seed, unseeded_draw, out>>

----------------------------------------------------------------------------
(* arithmetic_operations.py *)

ArithIterations == 100000

arithmetic_start ==
    /\ script = "arithmetic_operations" /\ pc = "start"
    /\ seed' = <<SeedValue>>
    /\ locals' = [result |-> 0, i |-> 0]
    /\ pc' = "loop"
    /\ UNCHANGED <<script, stack, ret, heap, unseeded_draw, out>>

\* mutant: the + 1 of line 16 left out
arithmetic_divisor_no_offset(b) == b % 10

\* the divisor of line 16
arithmetic_divisor(b) == (b % 10) + 1

arithmetic_loop ==
    /\ script = "arithmetic_operations" /\ pc = "loop"
    /\ locals.i < Cap(ArithIterations)
    /\ \E a \in randint(1, 100), b \in randint(1, 100) :
         LET divisor == arithmetic_divisor(b) IN
         IF divisor = 0 THEN Raise
         ELSE LET sum == a + b
                  diff == a - b
                  prod == a * b
                  quotient == a \div divisor
              IN /\ locals' = [locals EXCEPT
                                 !.result = @ + sum + diff + prod + quotient,
                                 !.i = @ + 1]
                 /\ Drew
                 /\ UNCHANGED <<script, pc, stack, ret, heap, seed, out>>

arithmetic_print ==
    /\ script = "arithmetic_operations" /\ pc = "loop"
    /\ locals.i = Cap(ArithIterations)
    /\ out' = Append(out, locals.result)
    /\ pc' = "done"
    /\ UNCHANGED <<script, locals, stack, ret, heap, seed, unseeded_draw>>

----------------------------------------------------------------------------
(* result_operations.py *)

ResultIterations == 50000

\* mutant: the guard tests the wrong value
divide_guard_one(b) == b = 1

\* line 4: the guard of divide
divide_guard(b) == b = 0

\* divide(a, b): the tagged two-element tuple
divide(a, b) ==
    IF divide_guard(b) THEN <<"error", "Division by zero">>
    ELSE <<"ok", a \div b>>

\* the divisors divide(a, b) evaluates: none when the guard returns early
divide_divisors(a, b) == IF divide_guard(b) THEN {} ELSE {b}

result_start ==
    /\ script = "result_operations" /\ pc = "start"
    /\ seed' = <<SeedValue>>
    /\ locals' = [success_sum |-> 0, error_count |-> 0, i |-> 0,
                  a |-> 0, b |-> 0, result |-> <<>>, zero_b |-> 0]
    /\ pc' = "loop"
    /\ UNCHANGED <<script, stack, ret, heap, unseeded_draw, out>>

result_loop ==
    /\ script = "result_operations" /\ pc = "loop"
    /\ locals.i < Cap(ResultIterations)
    /\ \E a \in randint(1, 100), b \in randint(0, 10) :
         IF 0 \in divide_divisors(a, b) THEN Raise
         ELSE LET result == divide(a, b) IN
              /\ locals' = [locals EXCEPT
                    !.a = a, !.b = b, !.result = result,
                    !.success_sum = IF result[1] = "ok" THEN @ + result[2] ELSE @,
                    !.error_count = IF result[1] = "ok" THEN @ ELSE @ + 1,
                    !.zero_b = IF b = 0 THEN @ + 1 ELSE @,
                    !.i = @ + 1]
              /\ Drew
              /\ UNCHANGED <<script, pc, stack, ret, heap, seed, out>>

result_print ==
    /\ script = "result_operations" /\ pc = "loop"
    /\ locals.i = Cap(ResultIterations)
    /\ out' = out \o <<locals.success_sum, locals.error_count>>
    /\ pc' = "done"
    /\ UNCHANGED <<script, locals, stack, ret, heap, seed, unseeded_draw>>

----------------------------------------------------------------------------
(* Python sequences (lists, tuples, strings) as TLA+ sequences *)

\* seq[idx] is in range for -len <= idx < len; anything else is an IndexError
py_in_range(seq, idx) == -Len(seq) <= idx /\ idx < Len(seq)

\* seq[idx]
py_get(seq, idx) == IF idx >= 0 THEN seq[idx + 1] ELSE seq[Len(seq) + idx + 1]

\* seq[lo:hi] for 0 <= lo
py_slice(seq, lo, hi) == SubSeq(seq, lo + 1, Min(hi, Len(seq)))

----------------------------------------------------------------------------
(* array_operations.py *)

ArrayIterations == 50000
ArrayModulus == 100000
ArrayPeriod == 1000

array_start ==
    /\ script = "array_operations" /\ pc = "start"
    /\ seed' = <<SeedValue>>
    /\ locals' = [arr |-> <<0, 1, 2, 3, 4, 5, 6, 7, 8, 9>>, sum_val |-> 0,
                  i |-> 0, idx |-> 0]
    /\ pc' = "loop"
    /\ UNCHANGED <<script, stack, ret, heap, unseeded_draw, out>>

\* mutant: the last % of line 15 left out
array_new_val_unreduced(sum_val, arr_val) ==
    (sum_val % ArrayModulus) + (arr_val % ArrayModulus)

\* lines 13-15: the value written back to arr[idx]
array_new_val(sum_val, arr_val) ==
    ((sum_val % ArrayModulus) + (arr_val % ArrayModulus)) % ArrayModulus

\* mutant: sum_val is never reduced
array_bound_sum_never(i, sum_val) == sum_val

\* lines 19-21: sum_val is reduced on the iterations with i % 1000 == 0 only
array_bound_sum(i, sum_val) ==
    IF i % ArrayPeriod = 0
    THEN ((sum_val % ArrayModulus) + 10) % ArrayModulus
    ELSE sum_val

\* one iteration of the loop, idx drawn from idxs, the loop cut at cap
array_iteration(idxs, cap) ==
    /\ script = "array_operations" /\ pc = "loop"
    /\ locals.i < cap
    /\ \E idx \in idxs :
         IF ~py_in_range(locals.arr, idx)
         THEN /\ pc' = "IndexError"
              /\ UNCHANGED <<script, locals, stack, ret, heap, seed, unseeded_draw, out>>
         ELSE LET arr_val == py_get(locals.arr, idx)
                  sum_val == locals.sum_val + arr_val
                  new_val == array_new_val(sum_val, arr_val)
              IN /\ locals' = [locals EXCEPT
                                 !.arr = [@ EXCEPT ![idx + 1] = new_val],
                                 !.sum_val = array_bound_sum(locals.i, sum_val),
                                 !.idx = idx,
                                 !.i = @ + 1]
                 /\ Drew
                 /\ UNCHANGED <<script, pc, stack, ret, heap, seed, out>>

array_printing(cap) ==
    /\ script = "array_operations" /\ pc = "loop"
    /\ locals.i = cap
    /\ out' = out \o <<locals.sum_val>> \o locals.arr
    /\ pc' = "done"
    /\ UNCHANGED <<script, locals, stack, ret, heap, seed, unseeded_draw>>

array_loop == array_iteration(randint(0, 9), Cap(ArrayIterations))

array_print == array_printing(Cap(ArrayIterations))

----------------------------------------------------------------------------
(* string_operations.py: no random.seed call *)

StringIterations == 5000

\* iterations of the string loop modelled
MaxStrIter == 3

Digits == <<"0", "1", "2", "3", "4", "5", "6", "7", "8", "9">>

\* str(num) for num >= 0: the decimal digits, a sequence of characters
RECURSIVE str(_)
str(num) ==
    IF num < 10 THEN <<Digits[num + 1]>>
    ELSE str(num \div 10) \o <<Digits[(num % 10) + 1]>>

string_start ==
    /\ script = "string_operations" /\ pc = "start"
    /\ locals' = [res |-> <<>>, count |-> 0, i |-> 0]
    /\ pc' = "loop"
    /\ UNCHANGED <<script, stack, ret, heap, seed, unseeded_draw, out>>

\* mutant: the comma left out
string_concat_no_comma(res, str_num) == res \o str_num

\* line 13: res + str_num + ","
string_concat(res, str_num) == res \o str_num \o <<",">>

string_loop ==
    /\ script = "string_operations" /\ pc = "loop"
    /\ locals.i < Min(StringIterations, MaxStrIter)
    /\ \E num \in randint(0, 9) :
         LET str_num == str(num)
             res == string_concat(locals.res, str_num)
         IN /\ locals' = [locals EXCEPT
                            !.res = res,
                            !.count = @ + Len(res),
                            !.i = @ + 1]
            /\ Drew
            /\ UNCHANGED <<script, pc, stack, ret, heap, seed, out>>

string_print ==
    /\ script = "string_operations" /\ pc = "loop"
    /\ locals.i = Min(StringIterations, MaxStrIter)
    /\ out' = out \o <<locals.count, locals.res, Len(locals.res)>>
    /\ pc' = "done"
    /\ UNCHANGED <<script, locals, stack, ret, heap, seed, unseeded_draw>>

----------------------------------------------------------------------------
(* option_operations.py *)

OptionIterations == 50000

option_start ==
    /\ script = "option_operations" /\ pc = "start"
    /\ seed' = <<SeedValue>>
    /\ locals' = [success_count |-> 0, none_count |-> 0, i |-> 0]
    /\ pc' = "loop"
    /\ UNCHANGED <<script, stack, ret, heap, unseeded_draw, out>>

\* line 13: val if val > 50 else None; None is <<>>, a value is <<val>>
option_of(val) == IF val > 50 THEN <<val>> ELSE <<>>

option_loop ==
    /\ script = "option_operations" /\ pc = "loop"
    /\ locals.i < Cap(OptionIterations)
    /\ \E val \in randint(0, 100) :
         LET opt == option_of(val) IN
         /\ locals' = [locals EXCEPT
                         !.success_count = IF opt # <<>> THEN @ + opt[1] ELSE @,
                         !.none_count = IF opt # <<>> THEN @ ELSE @ + 1,
                         !.i = @ + 1]
         /\ Drew
         /\ UNCHANGED <<script, pc, stack, ret, heap, seed, out>>

option_print ==
    /\ script = "option_operations" /\ pc = "loop"
    /\ locals.i = Cap(OptionIterations)
    /\ out' = out \o <<locals.success_count, locals.none_count>>
    /\ pc' = "done"
    /\ UNCHANGED <<script, locals, stack, ret, heap, seed, unseeded_draw>>

----------------------------------------------------------------------------
(* memory_allocation.py *)

MemoryIterations == 1000

\* create_array(size): [0, 1, ..., size - 1]
create_array(size) == [k \in 1..size |-> k - 1]

memory_start ==
    /\ script = "memory_allocation" /\ pc = "start"
    /\ seed' = <<SeedValue>>
    /\ locals' = [total_length |-> 0, i |-> 0]
    /\ pc' = "loop"
    /\ UNCHANGED <<script, stack, ret, heap, unseeded_draw, out>>

memory_loop ==
    /\ script = "memory_allocation" /\ pc = "loop"
    /\ locals.i < Cap(MemoryIterations)
    /\ \E size \in randint(10, 50) :
         LET arr == create_array(size)
             temp1 == <<1, 2, 3, 4, 5>>
             temp2 == temp1 \o py_slice(arr, 0, 5)
         IN /\ locals' = [locals EXCEPT
                            !.total_length = (@ + Len(arr)) + Len(temp2),
                            !.i = @ + 1]
            /\ Drew
            /\ UNCHANGED <<script, pc, stack, ret, heap, seed, out>>

memory_print ==
    /\ script = "memory_allocation" /\ pc = "loop"
    /\ locals.i = Cap(MemoryIterations)
    /\ out' = Append(out, locals.total_length)
    /\ pc' = "done"
    /\ UNCHANGED <<script, locals, stack, ret, heap, seed, unseeded_draw>>

----------------------------------------------------------------------------
(* nested_loops.py: no random numbers *)

NestedOuter == 1000
NestedInner == 500
NestedModulus == 1000000

nested_start ==
    /\ script = "nested_loops" /\ pc = "start"
    /\ locals' = [sum_val |-> 0, i |-> 0, j |-> 0]
    /\ pc' = "loop"
    /\ UNCHANGED <<script, stack, ret, heap, seed, unseeded_draw, out>>

\* lines 7-9: one pass of the inner loop's body
nested_body(sum_val, i, j) ==
    LET s == sum_val + i * j IN
    IF s > NestedModulus THEN s % NestedModulus ELSE s

\* one pass of the inner loop's body; the last pass of an inner loop starts
\* the next outer iteration
nested_loop ==
    /\ script = "nested_loops" /\ pc = "loop"
    /\ locals.i < Cap(NestedOuter)
    /\ locals' = [locals EXCEPT
                    !.sum_val = nested_body(@, locals.i, locals.j),
                    !.i = IF locals.j + 1 < NestedInner THEN @ ELSE @ + 1,
                    !.j = IF locals.j + 1 < NestedInner THEN @ + 1 ELSE 0]
    /\ UNCHANGED <<script, pc, stack, ret, heap, seed, unseeded_draw, out>>

nested_print ==
    /\ script = "nested_loops" /\ pc = "loop"
    /\ locals.i = Cap(NestedOuter)
    /\ out' = Append(out, locals.sum_val)
    /\ pc' = "done"
    /\ UNCHANGED <<script, locals, stack, ret, heap, seed, unseeded_draw>>

----------------------------------------------------------------------------
(* tuple_operations.py: no random numbers; five loops, one after the other *)

TupleIterations == 10000

tuple_start ==
    /\ script = "tuple_operations" /\ pc = "start"
    /\ locals' = [test |-> 1, i |-> 0,
                  sum1 |-> 0, sum2 |-> 0, sum3 |-> 0, sum4 |-> 0, sum5 |-> 0]
    /\ pc' = "loop"
    /\ UNCHANGED <<script, stack, ret, heap, seed, unseeded_draw, out>>

\* what one iteration of loop number `test` adds to its sum
tuple_addend(test) ==
    CASE test = 1 ->
           LET t == <<1, 2, 3, 4, 5>> IN py_get(t, 0)
      [] test = 2 ->
           LET base == <<10, 20, 30, 40, 50, 60, 70, 80, 90, 100>> IN
           py_get(base, 0) + py_get(base, 3) + py_get(base, 7) + py_get(base, 9)
      [] test = 3 ->
           LET source == <<1, 2, 3, 4, 5, 6, 7, 8, 9, 10>>
               s1 == py_slice(source, 2, 5)
               s2 == py_slice(source, 0, 3)
               s3 == py_slice(source, 7, Len(source))
           IN py_get(s1, 0) + py_get(s2, 0) + py_get(s3, 0)
      [] test = 4 ->
           LET left == <<1, 2, 3, 4, 5>>
               right == <<6, 7, 8, 9, 10>>
               combined == left \o right
           IN py_get(combined, 0) + py_get(combined, 9)
      [] test = 5 ->
           LET t1 == <<1, 2, 3>>
               t2 == <<4, 5, 6>>
               joined == t1 \o t2
               slice_result == py_slice(joined, 1, 5)
           IN py_get(slice_result, 0) + py_get(slice_result, 3)

\* the sum of loop number `test`
tuple_sum(l, test) ==
    CASE test = 1 -> l.sum1 [] test = 2 -> l.sum2 [] test = 3 -> l.sum3
      [] test = 4 -> l.sum4 [] test = 5 -> l.sum5

tuple_loop ==
    /\ script = "tuple_operations" /\ pc = "loop"
    /\ locals.i < Cap(TupleIterations)
    /\ LET test == locals.test
           add == tuple_addend(test)
       IN locals' = [locals EXCEPT
                       !.sum1 = IF test = 1 THEN @ + add ELSE @,
                       !.sum2 = IF test = 2 THEN @ + add ELSE @,
                       !.sum3 = IF test = 3 THEN @ + add ELSE @,
                       !.sum4 = IF test = 4 THEN @ + add ELSE @,
                       !.sum5 = IF test = 5 THEN @ + add ELSE @,
                       !.i = @ + 1]
    /\ UNCHANGED <<script, pc, stack, ret, heap, seed, unseeded_draw, out>>

\* the print after each loop; after the fifth, the total checksum too
tuple_print ==
    /\ script = "tuple_operations" /\ pc = "loop"
    /\ locals.i = Cap(TupleIterations)
    /\ IF locals.test < 5
       THEN /\ out' = Append(out, tuple_sum(locals, locals.test))
            /\ locals' = [locals EXCEPT !.test = @ + 1, !.i = 0]
            /\ pc' = "loop"
       ELSE LET total == locals.sum1 + locals.sum2 + locals.sum3
                           + locals.sum4 + locals.sum5
            IN /\ out' = out \o <<locals.sum5, <<"Total checksum: ", total>> >>
               /\ locals' = locals
               /\ pc' = "done"
    /\ UNCHANGED <<script, stack, ret, heap, seed, unseeded_draw>>

----------------------------------------------------------------------------
(* ref_operations.py: seeds the generator and draws nothing *)

RefOuter == 10000
RefInner == 10

\* Counter(value): a new object at an address not in use
Counter(h, value) ==
    LET addr == CHOOSE x \in 1..(Cardinality(DOMAIN h) + 1) : x \notin DOMAIN h
    IN [ref |-> addr, heap |-> [x \in DOMAIN h \cup {addr} |->
                                  IF x = addr THEN [value |-> value] ELSE h[x]]]

\* an object no variable refers to any more is freed
release(h, live) == [x \in DOMAIN h \cap live |-> h[x]]

\* mutant: increment works on a copy of the object
increment_copy(h, counter) == h

\* increment(counter): counter is a reference, the object is updated in place
increment(h, counter) == [h EXCEPT ![counter].value = @ + 1]

ref_start ==
    /\ script = "ref_operations" /\ pc = "start"
    /\ seed' = <<SeedValue>>
    /\ locals' = [total |-> 0, counter |-> 0, i |-> 0, j |-> 0]
    /\ pc' = "loop"
    /\ UNCHANGED <<script, stack, ret, heap, unseeded_draw, out>>

\* line 16: a fresh Counter(0) per outer iteration
ref_loop ==
    /\ script = "ref_operations" /\ pc = "loop"
    /\ locals.i < RefOuter
    /\ LET new == Counter(heap, 0) IN
       /\ heap' = release(new.heap, {new.ref})
       /\ locals' = [locals EXCEPT !.counter = new.ref, !.j = 0]
    /\ pc' = "increments"
    /\ UNCHANGED <<script, stack, ret, seed, unseeded_draw, out>>

\* lines 19-20: one call of increment(counter)
ref_increment ==
    /\ script = "ref_operations" /\ pc = "increments"
    /\ locals.j < RefInner
    /\ heap' = increment(heap, locals.counter)
    /\ locals' = [locals EXCEPT !.j = @ + 1]
    /\ UNCHANGED <<script, pc, stack, ret, seed, unseeded_draw, out>>

\* line 22
ref_add ==
    /\ script = "ref_operations" /\ pc = "increments"
    /\ locals.j = RefInner
    /\ locals' = [locals EXCEPT !.total = @ + heap[locals.counter].value,
                                !.i = @ + 1]
    /\ pc' = "loop"
    /\ UNCHANGED <<script, stack, ret, heap, seed, unseeded_draw, out>>

ref_print ==
    /\ script = "ref_operations" /\ pc = "loop"
    /\ locals.i = RefOuter
    /\ out' = Append(out, locals.total)
    /\ pc' = "done"
    /\ UNCHANGED <<script, locals, stack, ret, heap, seed, unseeded_draw>>

----------------------------------------------------------------------------
(* Helper calls: the frames of the active calls are on `stack` *)

Top == stack[Len(stack)]

\* call a helper: push its frame
Call(frame) == stack' = Append(stack, frame)

\* the innermost call updates its own locals
SetTop(frame) ==
    /\ stack' = [stack EXCEPT ![Len(stack)] = frame]
    /\ UNCHANGED <<script, pc, locals, ret, heap, seed, unseeded_draw, out>>

\* return v: pop the frame and hand v to the caller
Return(v) ==
    /\ stack' = SubSeq(stack, 1, Len(stack) - 1)
    /\ ret' = v
    /\ UNCHANGED <<script, pc, locals, heap, seed, unseeded_draw, out>>

----------------------------------------------------------------------------
(* math_intensive.py *)

\* range(1, 5000)
MathLimit == 5000
MathModulus == 1000

is_prime_frame(n) == [fn |-> "is_prime", pc |-> "entry", n |-> n, i |-> 0]

\* lines 5-12 of is_prime
is_prime_entry ==
    /\ stack # <<>> /\ Top.fn = "is_prime" /\ Top.pc = "entry"
    /\ LET n == Top.n IN
       IF n <= 1 THEN Return(0)
       ELSE IF n <= 3 THEN Return(1)
       ELSE IF n % 2 = 0 \/ n % 3 = 0 THEN Return(0)
       ELSE SetTop([Top EXCEPT !.i = 5, !.pc = "while"])

\* mutant: < for <= in the loop condition
is_prime_continue_strict(n, i) == i * i < n

\* line 13: the loop goes on while i * i <= n
is_prime_continue(n, i) == i * i <= n

\* line 14: the divisors the test evaluates (`or` evaluates n % (i + 2) only
\* when n % i is not 0)
is_prime_divisors(n, i) ==
    IF i = 0 THEN {i}
    ELSE IF n % i = 0 THEN {i} ELSE {i, i + 2}

\* lines 13-17: one test of the while condition and, if it holds, one pass
is_prime_while ==
    /\ stack # <<>> /\ Top.fn = "is_prime" /\ Top.pc = "while"
    /\ LET n == Top.n
           i == Top.i
       IN IF is_prime_continue(n, i)
          THEN IF 0 \in is_prime_divisors(n, i) THEN Raise
               ELSE IF n % i = 0 \/ n % (i + 2) = 0 THEN Return(0)
               ELSE SetTop([Top EXCEPT !.i = i + 6])
          ELSE Return(1)

gcd_frame(a, b) == [fn |-> "gcd", a |-> a, b |-> b]

\* mutant: the loop stops one pass early
gcd_continue_early(a, b) == b > 1

\* line 20: the loop goes on while b != 0
gcd_continue(a, b) == b # 0

\* lines 20-24: one test of the while condition and, if it holds, one pass
gcd_while ==
    /\ stack # <<>> /\ Top.fn = "gcd"
    /\ LET a == Top.a
           b == Top.b
       IN IF gcd_continue(a, b)
          THEN IF b = 0 THEN Raise
               ELSE LET temp == b IN SetTop([Top EXCEPT !.b = a % b, !.a = temp])
          ELSE Return(a)

math_start ==
    /\ script = "math_intensive" /\ pc = "start"
    /\ seed' = <<SeedValue>>
    /\ locals' = [prime_count |-> 0, gcd_sum |-> 0, i |-> 1, a |-> 0, b |-> 0]
    /\ pc' = "loop"
    /\ UNCHANGED <<script, stack, ret, heap, unseeded_draw, out>>

\* line 34: the call is_prime(i)
math_loop ==
    /\ script = "math_intensive" /\ pc = "loop" /\ stack = <<>>
    /\ locals.i < Min(MathLimit, 1 + MaxIter)
    /\ Call(is_prime_frame(locals.i))
    /\ pc' = "after_is_prime"
    /\ UNCHANGED <<script, locals, ret, heap, seed, unseeded_draw, out>>

\* lines 34-40: is_prime has returned; count, draw a and b, call gcd(a, b)
math_after_is_prime ==
    /\ script = "math_intensive" /\ pc = "after_is_prime" /\ stack = <<>>
    /\ \E a \in randint(1, 1000), b \in randint(1, 1000) :
         /\ locals' = [locals EXCEPT
                         !.prime_count = IF ret = 1 THEN @ + 1 ELSE @,
                         !.a = a, !.b = b]
         /\ Call(gcd_frame(a, b))
    /\ Drew
    /\ pc' = "after_gcd"
    /\ UNCHANGED <<script, ret, heap, seed, out>>

\* lines 40-44: gcd has returned
math_after_gcd ==
    /\ script = "math_intensive" /\ pc = "after_gcd" /\ stack = <<>>
    /\ LET i == locals.i
           mod_result == (i * i + locals.a * locals.b) % MathModulus
       IN locals' = [locals EXCEPT !.gcd_sum = (@ + ret) + mod_result,
                                   !.i = @ + 1]
    /\ pc' = "loop"
    /\ UNCHANGED <<script, stack, ret, heap, seed, unseeded_draw, out>>

math_print ==
    /\ script = "math_intensive" /\ pc = "loop" /\ stack = <<>>
    /\ locals.i = Min(MathLimit, 1 + MaxIter)
    /\ out' = out \o <<locals.prime_count, locals.gcd_sum>>
    /\ pc' = "done"
    /\ UNCHANGED <<script, locals, stack, ret, heap, seed, unseeded_draw>>

----------------------------------------------------------------------------
(* function_calls.py *)

CallsIterations == 10000
CallsPeriod == 1000
FibMax == 46
FibModulus == 1000000

fibonacci_frame(n) == [fn |-> "fibonacci", pc |-> "entry", n |-> n, fib1 |-> 0]

\* line 4
fibonacci_base(n) == n <= 1

\* mutant: the guard cuts in far too early
fibonacci_guard_low(n) == n > 4

\* line 7
fibonacci_guard(n) == n > FibMax

\* line 12
fibonacci_result(fib1, fib2) == (fib1 % FibModulus) + (fib2 % FibModulus)

\* lines 4-9: the tests, then the call fibonacci(n - 1)
fibonacci_entry ==
    /\ stack # <<>> /\ Top.fn = "fibonacci" /\ Top.pc = "entry"
    /\ LET n == Top.n IN
       IF fibonacci_base(n) THEN Return(n)
       ELSE IF fibonacci_guard(n) THEN Return(0)
       ELSE /\ stack' = Append([stack EXCEPT ![Len(stack)].pc = "fib1"],
                               fibonacci_frame(n - 1))
            /\ UNCHANGED <<script, pc, locals, ret, heap, seed, unseeded_draw, out>>

\* lines 9-10: fibonacci(n - 1) has returned; the call fibonacci(n - 2)
fibonacci_fib1 ==
    /\ stack # <<>> /\ Top.fn = "fibonacci" /\ Top.pc = "fib1"
    /\ stack' = Append([stack EXCEPT ![Len(stack)] =
                           [@ EXCEPT !.fib1 = ret, !.pc = "fib2"]],
                       fibonacci_frame(Top.n - 2))
    /\ UNCHANGED <<script, pc, locals, ret, heap, seed, unseeded_draw, out>>

\* lines 10-12: fibonacci(n - 2) has returned
fibonacci_fib2 ==
    /\ stack # <<>> /\ Top.fn = "fibonacci" /\ Top.pc = "fib2"
    /\ LET fib1 == Top.fib1
           fib2 == ret
       IN Return(fibonacci_result(fib1, fib2))

simple_math(a, b) == (a * b + a) - b

\* array_sum(arr), the loop from index i on
RECURSIVE array_sum_from(_, _, _)
array_sum_from(arr, i, sum_val) ==
    IF i < Len(arr) THEN array_sum_from(arr, i + 1, sum_val + py_get(arr, i))
    ELSE sum_val

array_sum(arr) == array_sum_from(arr, 0, 0)

calls_start ==
    /\ script = "function_calls" /\ pc = "start"
    /\ seed' = <<SeedValue>>
    /\ locals' = [res |-> 0, i |-> 0, a |-> 0]
    /\ pc' = "loop"
    /\ UNCHANGED <<script, stack, ret, heap, unseeded_draw, out>>

\* lines 29-41: one iteration, up to the call of fibonacci if there is one;
\* `a` is kept for the iterations that call fibonacci(a % 10)
calls_loop ==
    /\ script = "function_calls" /\ pc = "loop" /\ stack = <<>>
    /\ locals.i < Cap(CallsIterations)
    /\ \E a \in randint(1, 100), b \in randint(1, 100) :
         LET res1 == locals.res + simple_math(a, b)
             arr == <<a, b, a + b, a - b, a * 2>>
             res2 == res1 + (array_sum(arr) % 10)
         IN IF locals.i % CallsPeriod = 0
            THEN /\ locals' = [locals EXCEPT !.res = res2, !.a = a]
                 /\ Call(fibonacci_frame(a % 10))
                 /\ pc' = "after_fibonacci"
            ELSE /\ locals' = [locals EXCEPT !.res = res2, !.i = @ + 1]
                 /\ UNCHANGED <<pc, stack>>
    /\ Drew
    /\ UNCHANGED <<script, ret, heap, seed, out>>

\* line 41: fibonacci has returned
calls_after_fibonacci ==
    /\ script = "function_calls" /\ pc = "after_fibonacci" /\ stack = <<>>
    /\ locals' = [locals EXCEPT !.res = @ + ret, !.i = @ + 1]
    /\ pc' = "loop"
    /\ UNCHANGED <<script, stack, ret, heap, seed, unseeded_draw, out>>

calls_print ==
    /\ script = "function_calls" /\ pc = "loop" /\ stack = <<>>
    /\ locals.i = Cap(CallsIterations)
    /\ out' = Append(out, locals.res)
    /\ pc' = "done"
    /\ UNCHANGED <<script, locals, stack, ret, heap, seed, unseeded_draw>>

----------------------------------------------------------------------------
(* The specification *)

Scripts ==
    {"arithmetic_operations", "array_operations", "function_calls",
     "math_intensive", "memory_allocation", "nested_loops",
     "option_operations", "ref_operations", "result_operations",
     "string_operations", "tuple_operations"}

\* a script is started: nothing has run yet
InitScript ==
    /\ script \in Scripts
    /\ pc = "start"
    /\ locals = <<>>
    /\ stack = <<>>
    /\ ret = 0
    /\ heap = <<>>
    /\ seed = <<>>
    /\ unseeded_draw = FALSE
    /\ out = <<>>

\* largest argument of the direct calls of gcd
MaxGcdArg == 30
\* largest argument below the guard of the direct calls of fibonacci
MaxFibArg == 13

\* what a direct call of a helper leaves untouched
CallOnly ==
    /\ pc = "call"
    /\ ret = 0
    /\ heap = <<>>
    /\ seed = <<>>
    /\ unseeded_draw = FALSE
    /\ out = <<>>

\* is_prime is called directly on an argument of main's loop;
\* `locals` keeps the arguments of a direct call
InitIsPrime ==
    /\ CallOnly
    /\ script = "math_intensive"
    /\ \E n \in 1..(MathLimit - 1) :
         /\ locals = [fn |-> "is_prime", n |-> n]
         /\ stack = <<is_prime_frame(n)>>

\* gcd is called directly on arguments of main's range (sampled)
InitGcd ==
    /\ CallOnly
    /\ script = "math_intensive"
    /\ \E a, b \in {x \in 1..1000 : x <= MaxGcdArg \/ x > 1000 - RandSpan} :
         /\ locals = [fn |-> "gcd", a |-> a, b |-> b]
         /\ stack = <<gcd_frame(a, b)>>

\* fibonacci is called directly, below and above its guard
InitFibonacci ==
    /\ CallOnly
    /\ script = "function_calls"
    /\ \E n \in (-2..MaxFibArg) \cup {FibMax + 1, FibMax + 2} :
         /\ locals = [fn |-> "fibonacci", n |-> n]
         /\ stack = <<fibonacci_frame(n)>>

Init == InitScript \/ InitIsPrime \/ InitGcd \/ InitFibonacci

Next ==
    \/ arithmetic_start \/ arithmetic_loop \/ arithmetic_print
    \/ array_start \/ array_loop \/ array_print
    \/ calls_start \/ calls_loop \/ calls_after_fibonacci \/ calls_print
    \/ fibonacci_entry \/ fibonacci_fib1 \/ fibonacci_fib2
    \/ math_start \/ math_loop \/ math_after_is_prime \/ math_after_gcd
    \/ math_print \/ is_prime_entry \/ is_prime_while \/ gcd_while
    \/ memory_start \/ memory_loop \/ memory_print
    \/ nested_start \/ nested_loop \/ nested_print
    \/ option_start \/ option_loop \/ option_print
    \/ ref_start \/ ref_loop \/ ref_increment \/ ref_add \/ ref_print
    \/ result_start \/ result_loop \/ result_print
    \/ string_start \/ string_loop \/ string_print
    \/ tuple_start \/ tuple_loop \/ tuple_print

Spec == Init /\ [][Next]_vars

\* The direct calls of gcd.  A sequential program always takes its next
\* step: weak fairness of the next-state relation.
SpecGcd == InitGcd /\ [][gcd_while]_vars /\ WF_vars(gcd_while)

\* function_calls.py and the direct calls of fibonacci, with the same fairness.
InitCalls ==
    \/ InitScript /\ script = "function_calls"
    \/ InitFibonacci

NextCalls ==
    \/ calls_start \/ calls_loop \/ calls_after_fibonacci \/ calls_print
    \/ fibonacci_entry \/ fibonacci_fib1 \/ fibonacci_fib2

SpecCalls == InitCalls /\ [][NextCalls]_vars /\ WF_vars(NextCalls)

\* array_operations.py alone, run deep: the first DeepWide draws are any index
\* of 0..9, every later draw repeats the index before it; DeepIter iterations.
DeepWide == 1
DeepIter == 1002

InitDeep == InitScript /\ script = "array_operations"

array_loop_deep ==
    array_iteration(IF locals.i < DeepWide THEN randint(0, 9) ELSE {locals.idx},
                    Min(ArrayIterations, DeepIter))

array_print_deep == array_printing(Min(ArrayIterations, DeepIter))

NextDeep == array_start \/ array_loop_deep \/ array_print_deep

SpecDeep == InitDeep /\ [][NextDeep]_vars

----------------------------------------------------------------------------
(* The claims *)

\* C1: every script is deterministic: a script that draws random numbers has
\* seeded the generator with 42 before its first draw, so that no printed
\* value depends on a draw from an unseeded generator.
C1_SeededBeforeDraw == ~unseeded_draw

\* C2: no script ever divides, or takes a remainder, by zero: the divisor of
\* arithmetic_operations.py is in 1..10 for every b of 1..100, divide and gcd
\* divide only by a non-zero b, and the loop of is_prime divides only by
\* i >= 5 and i + 2.
C2_NoZeroDivisor ==
    /\ pc # "ZeroDivisionError"
    /\ \A b \in 1..100 : arithmetic_divisor(b) \in 1..10
    /\ (stack # <<>> /\ Top.fn = "is_prime" /\ Top.pc = "while") => Top.i >= 5

\* a division guarded by divide's test has been consumed: b was 0
C2_Witness ==
    /\ script = "result_operations" /\ pc = "loop"
    /\ locals.i >= 1 /\ locals.b = 0 /\ locals.error_count >= 1

\* an iteration of the loop of result_operations.py
C3_Iteration == script = "result_operations" /\ pc = "loop" /\ pc' = "loop"

\* what divide returned in the iteration, and what the iteration did with it
C3_Consumed ==
    C3_Iteration =>
      LET a == locals'.a
          b == locals'.b
          result == locals'.result
      IN /\ Len(result) = 2
         /\ (result[1] = "error") <=> (b = 0)
         /\ (b # 0) => (result[1] = "ok" /\ result[2] = a \div b)
         /\ (result[1] = "error") =>
               /\ locals'.error_count = locals.error_count + 1
               /\ locals'.success_sum = locals.success_sum
         /\ (result[1] = "ok") =>
               /\ locals'.success_sum = locals.success_sum + (a \div b)
               /\ locals'.error_count = locals.error_count

\* the value of exactly one of the two accumulators differs after the iteration
C3_ExactlyOneChanged ==
    C3_Iteration =>
      (locals'.success_sum # locals.success_sum)
        # (locals'.error_count # locals.error_count)

\* error_count is the number of iterations whose b was 0; nothing is raised
C3_Counted ==
    script = "result_operations" =>
      /\ pc # "ZeroDivisionError"
      /\ pc \in {"loop", "done"} => locals.error_count = locals.zero_b

\* C3 as stated: divide(a, b) is tagged "error" exactly when b == 0 and is
\* ("ok", a // b) otherwise; every iteration changes exactly one accumulator
\* (error_count by 1 on "error", success_sum by a // b on "ok"); error_count
\* counts the iterations whose b was 0 and no error leaves the loop.
C3_Original == []C3_Counted /\ [][C3_Consumed /\ C3_ExactlyOneChanged]_vars

\* C3 as amended: the same, except that an iteration updates exactly one
\* accumulator without necessarily changing its value (a // b is 0 for a < b).
C3_Amended == []C3_Counted /\ [][C3_Consumed]_vars

\* two iterations drew b = 0: both are counted, success_sum is untouched
C3_Witness ==
    /\ script = "result_operations" /\ pc = "loop"
    /\ locals.i = 2 /\ locals.b = 0 /\ locals.result[1] = "error"
    /\ locals.error_count = 2 /\ locals.success_sum = 0

\* an iteration of array_operations.py has completed
C4_AfterIteration ==
    script = "array_operations" /\ pc \in {"loop", "done"} /\ locals.i >= 1

\* C4 as stated: after every iteration 0 <= sum_val < 100000.
C4_Original ==
    C4_AfterIteration => (0 <= locals.sum_val /\ locals.sum_val < ArrayModulus)

\* C4 as amended: sum_val is reduced modulo 100000 on the iterations with
\* i % 1000 == 0 only; after such an iteration 0 <= sum_val < 100000, and
\* after the r-th iteration that follows it 0 <= sum_val <= 99999 * (1 + r).
C4_Amended ==
    C4_AfterIteration =>
      LET r == (locals.i - 1) % ArrayPeriod IN
      /\ 0 <= locals.sum_val
      /\ (r = 0) => locals.sum_val < ArrayModulus
      /\ locals.sum_val <= (ArrayModulus - 1) * (1 + r)

\* the iteration with i = 1000 has reduced a sum that had left 0..99999
C4_Witness ==
    /\ script = "array_operations" /\ pc = "loop"
    /\ locals.i = ArrayPeriod + 1 /\ locals.sum_val < ArrayModulus
    /\ locals.idx = 9 /\ locals.arr[10] > 9

\* the counter object of the current outer iteration, and the totals
C5_Counter ==
    script = "ref_operations" =>
      /\ pc = "increments" =>
            /\ heap[locals.counter].value = locals.j
            /\ locals.total = RefInner * locals.i
      /\ pc = "loop" =>
            /\ locals.total = RefInner * locals.i
            /\ locals.i >= 1 => heap[locals.counter].value = RefInner
      /\ pc = "done" => out = <<100000>>

\* a call of increment: the object's value + 1, nothing else touched
C5_Increment ==
    (script = "ref_operations" /\ pc = "increments" /\ pc' = "increments") =>
      /\ locals'.counter = locals.counter
      /\ heap'[locals.counter].value = heap[locals.counter].value + 1
      /\ DOMAIN heap' = DOMAIN heap
      /\ \A x \in DOMAIN heap \ {locals.counter} : heap'[x] = heap[x]
      /\ locals'.total = locals.total /\ locals'.i = locals.i
      /\ out' = out

\* C5: increment updates the caller's Counter object in place, by exactly 1
\* per call and nothing else; the counter of an outer iteration ends at 10,
\* total is 10 times the completed outer iterations, and 100000 is printed.
C5_ByReference == []C5_Counter /\ [][C5_Increment]_vars

C5_Witness ==
    script = "ref_operations" /\ pc = "done" /\ out = <<100000>>

\* n is prime: no divisor d with 2 <= d and d * d <= n
RefPrime(n) == n >= 2 /\ \A d \in 2..(n - 1) : d * d > n \/ n % d # 0

\* the number of primes below m
PrimesBelow(m) == Cardinality({n \in 1..(m - 1) : RefPrime(n)})

PrimesBelowLimit == PrimesBelow(MathLimit)

\* C6: is_prime(n) is 1 exactly for the primes among 1..4999; its loop goes
\* on only while i * i <= n; main counts the primes below its loop variable,
\* whatever it draws, and there are 669 of them below 5000.
C6_IsPrime ==
    /\ (pc = "call" /\ locals.fn = "is_prime" /\ stack = <<>>) =>
          ret = IF RefPrime(locals.n) THEN 1 ELSE 0
    /\ (stack # <<>> /\ Top.fn = "is_prime" /\ Top.pc = "while" /\ Top.i > 5) =>
          (Top.i - 6) * (Top.i - 6) <= Top.n
    /\ (script = "math_intensive" /\ pc = "loop") =>
          locals.prime_count = PrimesBelow(locals.i)
    /\ (script = "math_intensive" /\ pc = "done") =>
          out[1] = PrimesBelow(Min(MathLimit, 1 + MaxIter))
    /\ PrimesBelowLimit = 669

\* is_prime(49) has returned 0: 49 passes the tests by 2, 3 and 5
C6_Witness ==
    /\ pc = "call" /\ locals.fn = "is_prime" /\ locals.n = 49
    /\ stack = <<>> /\ ret = 0

\* gcd(a, b) has returned the greatest common divisor
C7_Result ==
    (pc = "call" /\ locals.fn = "gcd" /\ stack = <<>>) =>
      LET a == locals.a
          b == locals.b
      IN /\ ret > 0
         /\ a % ret = 0 /\ b % ret = 0
         /\ \A d \in 1..Min(a, b) : (a % d = 0 /\ b % d = 0) => ret % d = 0

\* a pass of gcd's loop: b decreases and stays >= 0
C7_Decreases ==
    (stack # <<>> /\ Top.fn = "gcd" /\ Len(stack') = Len(stack)) =>
      (stack'[Len(stack)].b < Top.b /\ stack'[Len(stack)].b >= 0)

\* every call of gcd returns
C7_Terminates == (stack # <<>> /\ Top.fn = "gcd") ~> (stack = <<>>)

\* C7: gcd(a, b) terminates for a, b of main's range, b decreasing on every
\* pass of the loop, and returns a positive common divisor of a and b that
\* every common divisor divides.
C7_Gcd == []C7_Result /\ [][C7_Decreases]_vars /\ C7_Terminates

\* gcd(30, 18) has returned 6
C7_Witness ==
    /\ pc = "call" /\ locals.fn = "gcd" /\ locals.a = 30 /\ locals.b = 18
    /\ stack = <<>> /\ ret = 6

\* the Fibonacci number F(n)
RECURSIVE FibRef(_)
FibRef(n) == IF n <= 1 THEN n ELSE FibRef(n - 1) + FibRef(n - 2)

\* the results of fibonacci, the depth of its recursion, and main's calls
C8_Bounded ==
    /\ (pc = "call" /\ locals.fn = "fibonacci" /\ stack = <<>>) =>
          LET n == locals.n IN
          /\ (n <= 1) => ret = n
          /\ (n > FibMax) => ret = 0
          /\ (2 <= n /\ n <= FibMax) => (0 <= ret /\ ret <= 1999998)
          /\ (n \in 0..9) => ret = FibRef(n)
    /\ (stack # <<>> /\ Top.fn = "fibonacci") =>
          LET n == stack[1].n IN
          Len(stack) - 1 <= IF 2 <= n /\ n <= FibMax THEN n - 1 ELSE 0
    /\ (script = "function_calls" /\ pc = "after_fibonacci") =>
          IF stack # <<>>
          THEN /\ stack[1].n \in 0..9
               /\ \A k \in 1..Len(stack) : stack[k].n <= FibMax
          ELSE ret = FibRef(locals.a % 10)

\* every call of fibonacci returns
C8_Terminates == (stack # <<>> /\ Top.fn = "fibonacci") ~> (stack = <<>>)

\* C8: fibonacci(n) terminates; it returns n for n <= 1 and 0, without a
\* recursive call, for n > 46; for 2 <= n <= 46 its recursion is at most
\* n - 1 deep and its result at most 1999998; main calls it on 0..9 only,
\* where the guard is never taken and the result is F(n).
C8_Fibonacci == []C8_Bounded /\ C8_Terminates

\* main's call fibonacci(9) has returned 34
C8_Witness ==
    /\ script = "function_calls" /\ pc = "after_fibonacci" /\ stack = <<>>
    /\ locals.a % 10 = 9 /\ ret = 34

\* what array_operations.py keeps true of arr
C9_Elements ==
    script = "array_operations" =>
      /\ pc # "IndexError"
      /\ pc \in {"loop", "done"} =>
            /\ Len(locals.arr) = 10
            /\ locals.idx \in 0..9
            /\ \A k \in 1..10 : 0 <= locals.arr[k] /\ locals.arr[k] < ArrayModulus

\* an iteration writes arr[idx] and no other element
C9_OneWrite ==
    (script = "array_operations" /\ pc = "loop" /\ pc' = "loop") =>
      \A k \in 1..10 : k # locals'.idx + 1 => locals'.arr[k] = locals.arr[k]

\* C9: arr keeps its 10 elements, every access arr[idx] has idx in 0..9, an
\* iteration writes only arr[idx], and every element stays in 0..99999.
C9_Array == []C9_Elements /\ [][C9_OneWrite]_vars

\* an element has grown past half the modulus and the loop goes on
C9_Witness ==
    /\ script = "array_operations" /\ pc = "loop" /\ locals.i > 20
    /\ locals.idx = 7 /\ locals.arr[8] > ArrayModulus \div 2
    /\ locals.arr[10] = 9

\* C10: after k iterations len(res) == 2 * k and count == k * (k + 1),
\* whatever digits were drawn; so the printed count and length are those of
\* the last k (25005000 and 10000 for k = 5000) and only res varies.
C10_Length ==
    /\ (script = "string_operations" /\ pc \in {"loop", "done"}) =>
          /\ Len(locals.res) = 2 * locals.i
          /\ locals.count = locals.i * (locals.i + 1)
          /\ pc = "done" =>
                LET k == Min(StringIterations, MaxStrIter) IN
                out = <<k * (k + 1), locals.res, 2 * k>>
    /\ StringIterations * (StringIterations + 1) = 25005000
    /\ 2 * StringIterations = 10000

\* a run whose digits were 9, 0, ... has printed
C10_Witness ==
    /\ script = "string_operations" /\ pc = "done"
    /\ SubSeq(out[2], 1, 4) = <<"9", ",", "0", ",">>
    /\ out[3] = 2 * Min(StringIterations, MaxStrIter)

====
